---- MODULE Spec2Model ----
(***************************************************************************)
(* Lead Quality Scorer & Enrichment Prioritizer                            *)
(* (backend/lead_quality_prioritizer.py).                                  *)
(*                                                                         *)
(* Python strings are TLA+ strings; a character is a string of length 1.   *)
(* A dict is the sequence of its <<key, value>> items in insertion order.  *)
(* A float is the integer  value * Scale  (all the quantities the model    *)
(* reaches are exact at that scale).                                       *)
(***************************************************************************)
EXTENDS Integers, Sequences, FiniteSets, TLC

VARIABLES
    pc,              \* position of the running call
    lead,            \* compute_lead_score: the lead argument
    mx_check,        \* the mx_check argument (None, PyTrue, PyFalse)
    mx_answer,       \* what mx_lookup would return in this environment
    has_tldextract,  \* whether the optional tldextract import succeeded
    result,          \* compute_lead_score: the returned (score, breakdown)
    heap,            \* the dict objects, by identity (index)
    rows0,           \* the dicts of the input batch as they were on entry
    leads,           \* process_file: `leads` (a list of references)
    dedupe,          \* process_file: the dedupe flag
    scored,          \* process_file: `scored` / prioritize: `leads_scored`
    credits,         \* prioritize: credits
    cost_per_enrich, \* prioritize: cost_per_enrich
    budget,          \* prioritize: remaining budget
    sorted_leads,    \* prioritize: the sorted list
    cursor,          \* prioritize: how many of sorted_leads the loop has seen
    selected         \* prioritize: `selected`

vars == <<pc, lead, mx_check, mx_answer, has_tldextract, result, heap, rows0,
          leads, dedupe, scored, credits, cost_per_enrich, budget,
          sorted_leads, cursor, selected>>

scoreVars == <<lead, mx_check, mx_answer, has_tldextract, result>>
batchVars == <<heap, rows0, leads, dedupe, scored>>
prioVars  == <<credits, cost_per_enrich, budget, sorted_leads, cursor, selected>>

-----------------------------------------------------------------------------
(* Python values *)

\* Python's None (what dict.get returns for a missing key).
None == "<None>"

\* Truthiness of a string-or-None value: `if v`.
Truthy(v) == v # None /\ v # ""

\* `a or b` on string-or-None values.
Or(a, b) == IF Truthy(a) THEN a ELSE b

Chr(s, i) == SubSeq(s, i, i)

Chars(s) == {Chr(s, i) : i \in 1..Len(s)}

LowerAlpha == "abcdefghijklmnopqrstuvwxyz"
UpperAlpha == "ABCDEFGHIJKLMNOPQRSTUVWXYZ"
DigitChars == "0123456789"

Letters == Chars(LowerAlpha) \cup Chars(UpperAlpha)
Digits  == Chars(DigitChars)
\* \s of the re module, on the characters the model uses
Whitespace == {" ", "\t"}
\* \w of the re module
WordChars == Letters \cup Digits \cup {"_"}

Min(a, b) == IF a <= b THEN a ELSE b
Max(a, b) == IF a >= b THEN a ELSE b

UpperChars == Chars(UpperAlpha)

\* str.lower() on one character
LowerOf ==
    [c \in UpperChars |->
        Chr(LowerAlpha, CHOOSE j \in 1..Len(UpperAlpha) : Chr(UpperAlpha, j) = c)]

lower_char(c) == IF c \in UpperChars THEN LowerOf[c] ELSE c

RECURSIVE str_lower(_)
str_lower(s) ==
    IF s = "" THEN ""
    ELSE lower_char(Chr(s, 1)) \o str_lower(SubSeq(s, 2, Len(s)))

RECURSIVE str_lstrip(_)
str_lstrip(s) ==
    IF s # "" /\ Chr(s, 1) \in Whitespace
    THEN str_lstrip(SubSeq(s, 2, Len(s)))
    ELSE s

RECURSIVE str_rstrip(_)
str_rstrip(s) ==
    IF s # "" /\ Chr(s, Len(s)) \in Whitespace
    THEN str_rstrip(SubSeq(s, 1, Len(s) - 1))
    ELSE s

\* str.strip()
str_strip(s) == str_rstrip(str_lstrip(s))

\* re.sub(r'\s+', ' ', s)
RECURSIVE collapse_whitespace(_)
collapse_whitespace(s) ==
    IF s = "" THEN ""
    ELSE IF Chr(s, 1) \in Whitespace
         THEN " " \o collapse_whitespace(str_lstrip(s))
         ELSE Chr(s, 1) \o collapse_whitespace(SubSeq(s, 2, Len(s)))

\* the positions of character c in s
Positions(s, c) == {i \in 1..Len(s) : Chr(s, i) = c}

\* s.split(sep)[-1] for a one-character separator
last_part(s, sep) ==
    IF Positions(s, sep) = {} THEN s
    ELSE LET p == CHOOSE i \in Positions(s, sep) :
                      \A j \in Positions(s, sep) : j <= i
         IN  SubSeq(s, p + 1, Len(s))

\* '.'.join(s.split('.')[-2:])
last_two_labels(s) ==
    IF Cardinality(Positions(s, ".")) < 2 THEN s
    ELSE LET last == CHOOSE i \in Positions(s, ".") :
                         \A j \in Positions(s, ".") : j <= i
             prev == CHOOSE i \in Positions(s, ".") \ {last} :
                         \A j \in Positions(s, ".") \ {last} : j <= i
         IN  SubSeq(s, prev + 1, Len(s))

-----------------------------------------------------------------------------
(* dicts *)

dict_keys(d) == {d[i][1] : i \in 1..Len(d)}

\* d.get(k)
dict_get(d, k) ==
    IF k \in dict_keys(d)
    THEN d[CHOOSE i \in 1..Len(d) : d[i][1] = k][2]
    ELSE None

\* d.get(k, default)
dict_get_default(d, k, default) ==
    IF k \in dict_keys(d) THEN dict_get(d, k) ELSE default

\* d[k] = v : an existing key keeps its place, a new key goes last
dict_set(d, k, v) ==
    IF k \in dict_keys(d)
    THEN [i \in 1..Len(d) |-> IF d[i][1] = k THEN <<k, v>> ELSE d[i]]
    ELSE Append(d, <<k, v>>)

-----------------------------------------------------------------------------
(* Configurable weights & lists *)

\* A float x is held as the integer x * Scale: thirds of tenths (completeness),
\* hundredths (seniority) and revenue / 1e7 * 0.4 for a revenue that is a
\* multiple of 5 are all whole at this scale, and 100 * Scale fits an int.
Scale == 15 * 1000000

PyTrue  == "True"
PyFalse == "False"

\* WEIGHTS, in hundredths
WEIGHTS == [completeness   |-> 30,
            seniority      |-> 30,
            email_validity |-> 20,
            domain_match   |-> 10,
            company_signal |-> 10]

PERSONAL_EMAIL_DOMAINS ==
    {"gmail.com", "yahoo.com", "hotmail.com", "outlook.com", "aol.com",
     "icloud.com", "me.com", "protonmail.com", "ymail.com", "gmx.com"}

\* TITLE_KEYWORDS: each pattern is \b(alt|alt|...)\b ; c[- ]?level is written
\* out as its three strings, and vp\b is vp (the group's own \b follows it).
TITLE_KEYWORDS ==
    << [alts |-> {"c-level", "c level", "clevel", "ceo",
                  "chief executive officer", "coo", "cfo", "cto",
                  "chief technology officer", "chief financial officer",
                  "founder", "co-founder"},
        val  |-> Scale],
       [alts |-> {"president", "vp", "vice president", "vice-president",
                  "head of", "head,", "head "},
        val  |-> (85 * Scale) \div 100],
       [alts |-> {"director", "senior director", "sr director"},
        val  |-> (7 * Scale) \div 10],
       [alts |-> {"manager", "senior manager", "mgr"},
        val  |-> (5 * Scale) \div 10],
       [alts |-> {"lead", "principal"},
        val  |-> (6 * Scale) \div 10],
       [alts |-> {"engineer", "developer", "analyst", "specialist",
                  "associate"},
        val  |-> (3 * Scale) \div 10] >>

-----------------------------------------------------------------------------
(* Utilities *)

normalize(s) ==
    IF s = None THEN ""
    ELSE str_lower(collapse_whitespace(str_strip(s)))

extract_domain_from_email(email) ==
    IF ~Truthy(email) THEN ""
    ELSE LET e == str_lower(str_strip(email))
         IN  IF Cardinality(Positions(e, "@")) # 1 THEN ""
             ELSE last_part(e, "@")

\* [A-Za-z0-9._%+-] and [A-Za-z0-9.-]
LocalPartChars == Letters \cup Digits \cup {".", "_", "%", "+", "-"}
HostChars      == Letters \cup Digits \cup {".", "-"}

\* re.match(r"^[A-Za-z0-9._%+-]+@[A-Za-z0-9.-]+\.[A-Za-z]{2,}$", email.strip())
email_syntax_valid(email) ==
    IF ~Truthy(email) THEN FALSE
    ELSE LET e     == str_strip(email)
             n     == Len(e)
         IN  \E a \in 2..n :
               /\ Chr(e, a) = "@"
               /\ \A i \in 1..(a - 1) : Chr(e, i) \in LocalPartChars
               /\ \E p \in (a + 2)..(n - 2) :
                    /\ Chr(e, p) = "."
                    /\ \A i \in (a + 1)..(p - 1) : Chr(e, i) \in HostChars
                    /\ \A i \in (p + 1)..n : Chr(e, i) \in Letters

is_personal_email_domain_always_false(domain) == FALSE

is_personal_email_domain(domain) ==
    IF domain = "" THEN FALSE
    ELSE str_lower(domain) \in PERSONAL_EMAIL_DOMAINS

\* mx_lookup: None without dnspython, else whether the resolver answered with
\* MX records (an exception is False); the answer is the environment's.
mx_lookup(domain, answer) == answer

\* \b between positions p and p+1 of s
word_boundary(s, p) ==
    LET IsWord(i) == i \in 1..Len(s) /\ Chr(s, i) \in WordChars
    IN  IsWord(p) # IsWord(p + 1)

\* re.search(r'\b(alt|...)\b', title)
re_search_keywords(alts, title) ==
    \E alt \in alts : \E i \in 1..Len(title) :
        /\ i + Len(alt) - 1 <= Len(title)
        /\ SubSeq(title, i, i + Len(alt) - 1) = alt
        /\ word_boundary(title, i - 1)
        /\ word_boundary(title, i + Len(alt) - 1)

\* tldextract.extract(host).registered_domain over a small public-suffix
\* list: the label before the suffix joined to the suffix, '' without one.
PUBLIC_SUFFIXES == {"com", "org", "io", "uk", "co.uk"}

registered_domain(host) ==
    LET n    == Len(host)
        Cuts == {i \in 1..n : (i = 1 \/ Chr(host, i - 1) = ".")
                              /\ SubSeq(host, i, n) \in PUBLIC_SUFFIXES}
    IN  IF Cuts = {} THEN ""
        ELSE LET c == CHOOSE i \in Cuts : \A j \in Cuts : i <= j
             IN  IF c <= 2 THEN ""
                 ELSE last_part(SubSeq(host, 1, c - 2), ".")
                      \o SubSeq(host, c - 1, n)

-----------------------------------------------------------------------------
(* Python numbers *)

\* round(n / d) for d > 0: to nearest, a tie to the even neighbour
round_half_even(n, d) ==
    LET q == n \div d
        r == n % d
    IN  IF 2 * r < d THEN q
        ELSE IF 2 * r > d THEN q + 1
        ELSE IF q % 2 = 0 THEN q ELSE q + 1

\* the largest revenue the parse keeps apart (anything above is beyond the cap)
RevenueCeiling == 10 * 10000000

\* [0-9.] and [0-9.\-]
NumericChars        == Digits \cup {"."}
NumericOrMinusChars == Digits \cup {".", "-"}

\* int(digits), saturating at RevenueCeiling
RECURSIVE digits_value(_, _)
digits_value(s, acc) ==
    IF s = "" THEN acc
    ELSE LET d == CHOOSE k \in 0..9 : Chr(DigitChars, k + 1) = Chr(s, 1)
         IN  digits_value(SubSeq(s, 2, Len(s)),
                          Min(acc * 10 + d, RevenueCeiling))

\* float(s) for s made of digits, dots and minus signs: ok is FALSE where
\* float() raises ValueError; v is the value (the model's revenues have no
\* non-zero digit after the point, so v is a whole number).
float_of(s) ==
    LET neg   == s # "" /\ Chr(s, 1) = "-"
        body  == IF neg THEN SubSeq(s, 2, Len(s)) ELSE s
        dots  == Positions(body, ".")
        whole == IF dots = {} THEN body
                 ELSE SubSeq(body, 1, (CHOOSE i \in dots : TRUE) - 1)
        ok    == /\ Chars(body) \subseteq NumericChars
                 /\ Cardinality(dots) <= 1
                 /\ Chars(body) \cap Digits # {}
        mag   == IF ok THEN digits_value(whole, 0) ELSE 0
    IN  [ok |-> ok, v |-> IF neg THEN 0 - mag ELSE mag]

\* re.sub(r"[^0-9.\-]", '', s)
RECURSIVE strip_non_numeric_keep_minus(_)
strip_non_numeric_keep_minus(s) ==
    IF s = "" THEN ""
    ELSE (IF Chr(s, 1) \in NumericOrMinusChars THEN Chr(s, 1) ELSE "")
         \o strip_non_numeric_keep_minus(SubSeq(s, 2, Len(s)))

\* re.sub(r"[^0-9.]", '', s)
RECURSIVE strip_non_numeric(_)
strip_non_numeric(s) ==
    IF s = "" THEN ""
    ELSE (IF Chr(s, 1) \in NumericChars THEN Chr(s, 1) ELSE "")
         \o strip_non_numeric(SubSeq(s, 2, Len(s)))

-----------------------------------------------------------------------------
(* Scoring components: every score is the float times Scale *)

completeness_score(L) ==
    LET tenths ==
            (IF Truthy(dict_get(L, "email")) THEN 10 ELSE 0)
          + (IF Truthy(dict_get(L, "phone")) THEN 6 ELSE 0)
          + (IF Truthy(dict_get(L, "linkedin_url")) THEN 6 ELSE 0)
          + (IF Truthy(dict_get(L, "company_domain"))
                \/ Truthy(dict_get(L, "company_name")) THEN 8 ELSE 0)
    IN  Min((tenths * Scale) \div 30, Scale)

RECURSIVE best_keyword(_, _, _)
best_keyword(title, k, best) ==
    IF k > Len(TITLE_KEYWORDS) THEN best
    ELSE best_keyword(title, k + 1,
             IF re_search_keywords(TITLE_KEYWORDS[k].alts, title)
             THEN Max(best, TITLE_KEYWORDS[k].val)
             ELSE best)

seniority_score(job_title) ==
    IF ~Truthy(job_title) THEN 0
    ELSE best_keyword(normalize(job_title), 1, 0)

domain_match_score(L, tldextract) ==
    LET email == dict_get(L, "email")
        cdom  == Or(dict_get(L, "company_domain"), "")
    IN  IF ~Truthy(email) \/ ~Truthy(cdom) THEN 0
        ELSE LET ed   == extract_domain_from_email(email)
                 cd   == normalize(cdom)
                 ed_r == IF Positions(ed, "@") # {}
                         THEN extract_domain_from_email(ed) ELSE ed
                 e_reg == IF tldextract
                          THEN Or(registered_domain(ed_r), ed_r)
                          ELSE IF ed_r # "" THEN last_two_labels(ed_r) ELSE ""
                 c_reg == IF tldextract
                          THEN Or(registered_domain(cd), cd)
                          ELSE IF cd # "" THEN last_two_labels(cd) ELSE ""
             IN  IF e_reg = "" \/ c_reg = "" THEN 0
                 ELSE IF e_reg = c_reg THEN Scale ELSE 0

company_signal_score(L) ==
    LET email  == dict_get(L, "email")
        d      == extract_domain_from_email(email)
        from_email ==
            IF Truthy(email) /\ ~is_personal_email_domain(d)
            THEN (6 * Scale) \div 10 ELSE 0
        rev    == dict_get(L, "estimated_revenue")
        f      == float_of(strip_non_numeric(rev))
        \* (v / 1e7) * 0.4 * Scale = v * 3 / 5
        from_revenue ==
            IF rev # None /\ rev # "" /\ f.ok
            THEN (3 * Min(f.v, 10000000)) \div 5 ELSE 0
    IN  Min(from_email + from_revenue, Scale)

email_validity_score(L, mx, answer) ==
    LET email == dict_get(L, "email")
        d     == extract_domain_from_email(email)
    IN  IF ~Truthy(email) THEN 0
        ELSE Min(  (IF email_syntax_valid(email) THEN (6 * Scale) \div 10 ELSE 0)
                 + (IF d # "" /\ ~is_personal_email_domain(d)
                    THEN (3 * Scale) \div 10 ELSE 0)
                 + (IF mx = PyTrue /\ mx_lookup(d, answer) = PyTrue
                    THEN Scale \div 10 ELSE 0),
                 Scale)

\* int(raw * 100), raw held as raw_num / (100 * Scale)
score_of_raw_truncated(raw_num) == raw_num \div Scale

\* int(round(raw * 100))
score_of_raw(raw_num) == round_half_even(raw_num, Scale)

\* the weighted sum `raw`, as raw * 100 * Scale
weighted_sum(c, s, e, d, cs) ==
    WEIGHTS.completeness * c + WEIGHTS.seniority * s
    + WEIGHTS.email_validity * e + WEIGHTS.domain_match * d
    + WEIGHTS.company_signal * cs

\* Returns the score and the breakdown; the breakdown's entries are in
\* thousandths (round(x, 3)) and raw_weighted in ten-thousandths (round(raw, 4)).
compute_lead_score(L, mx, answer, tldextract) ==
    LET c   == completeness_score(L)
        s   == seniority_score(dict_get(L, "job_title"))
        e   == email_validity_score(L, mx, answer)
        d   == domain_match_score(L, tldextract)
        cs  == company_signal_score(L)
        raw_num == weighted_sum(c, s, e, d, cs)
    IN  [score |-> score_of_raw(raw_num),
         breakdown |->
            [completeness   |-> round_half_even(c, Scale \div 1000),
             seniority      |-> round_half_even(s, Scale \div 1000),
             email_validity |-> round_half_even(e, Scale \div 1000),
             domain_match   |-> round_half_even(d, Scale \div 1000),
             company_signal |-> round_half_even(cs, Scale \div 1000),
             raw_weighted   |-> round_half_even(raw_num, Scale \div 100)]]

\* Whether raw * 100 lies exactly halfway between two integers. There the
\* double that Python holds is a hair off the decimal value, to either side,
\* and round() follows the double; such leads are not among the inputs.
exact_tie(L, mx, answer, tldextract) ==
    weighted_sum(completeness_score(L),
                 seniority_score(dict_get(L, "job_title")),
                 email_validity_score(L, mx, answer),
                 domain_match_score(L, tldextract),
                 company_signal_score(L)) % Scale = Scale \div 2

-----------------------------------------------------------------------------
(* compute_lead_score on one lead *)

\* the values a field of the lead is drawn from (None: the key is missing)
EmailInputs   == {None, "", "bob@gmail.com", "Jane@Acme.com", "bob",
                  "a@b@c.com", "jane@mail.acme.co.uk"}
TitleInputs   == {None, "", "CEO", "VP of Sales", "Lead Engineer"}
DomainInputs  == {None, "acme.com", "other.co.uk"}
PhoneInputs   == {None, "555-1234"}
LinkedinInputs == {None, "in/jane"}
RevenueInputs == {None, "", "n/a", "$2,500,000", "3749000", "25000000",
                  "-5000000", "1.2.3"}
\* mx_check and what the environment's mx_lookup answers when it is asked
MxInputs == {<<None, None>>, <<PyFalse, None>>,
             <<PyTrue, None>>, <<PyTrue, PyTrue>>, <<PyTrue, PyFalse>>}

Item(k, v) == IF v = None THEN <<>> ELSE << <<k, v>> >>

NoResult == [score |-> 0, breakdown |-> [completeness |-> 0, seniority |-> 0,
             email_validity |-> 0, domain_match |-> 0, company_signal |-> 0,
             raw_weighted |-> 0]]

\* the batch and prioritizer variables while no batch is running
BatchIdle ==
    /\ heap = <<>> /\ rows0 = <<>> /\ leads = <<>> /\ dedupe = FALSE
    /\ scored = <<>>

PrioIdle ==
    /\ credits = 0 /\ cost_per_enrich = 1 /\ budget = 0
    /\ sorted_leads = <<>> /\ cursor = 0 /\ selected = <<>>

ScoreIdle ==
    /\ lead = <<>> /\ mx_check = None /\ mx_answer = None
    /\ has_tldextract = FALSE /\ result = NoResult

InitScore ==
    /\ pc = "score_call"
    /\ \E email \in EmailInputs, title \in TitleInputs, dom \in DomainInputs,
          phone \in PhoneInputs, li \in LinkedinInputs, rev \in RevenueInputs :
         lead = Item("email", email) \o Item("job_title", title)
                \o Item("company_domain", dom) \o Item("phone", phone)
                \o Item("linkedin_url", li) \o Item("estimated_revenue", rev)
    /\ \E m \in MxInputs : mx_check = m[1] /\ mx_answer = m[2]
    /\ has_tldextract \in BOOLEAN
    /\ ~exact_tie(lead, mx_check, mx_answer, has_tldextract)
    /\ result = NoResult
    /\ BatchIdle /\ PrioIdle

ComputeLeadScore ==
    /\ pc = "score_call"
    /\ result' = compute_lead_score(lead, mx_check, mx_answer, has_tldextract)
    /\ pc' = "score_done"
    /\ UNCHANGED <<lead, mx_check, mx_answer, has_tldextract>>
    /\ UNCHANGED batchVars
    /\ UNCHANGED prioVars

NextScore == ComputeLeadScore

SpecScore == InitScore /\ [][NextScore]_vars

-----------------------------------------------------------------------------
(* Deduplication *)

RECURSIVE count_nonempty_from(_, _)
count_nonempty_from(L, i) ==
    IF i > Len(L) THEN 0
    ELSE (IF L[i][2] # None /\ L[i][2] # "" THEN 1 ELSE 0)
         + count_nonempty_from(L, i + 1)

count_nonempty_fields(L) == count_nonempty_from(L, 1)

\* `count_nonempty_fields(L) >= count_nonempty_fields(existing)`
more_filled_or_equal(L, existing) ==
    count_nonempty_fields(L) >= count_nonempty_fields(existing)

\* `count_nonempty_fields(L) > count_nonempty_fields(existing)`
more_filled(L, existing) ==
    count_nonempty_fields(L) > count_nonempty_fields(existing)

\* by_key[key] = id unless an at least as filled record already holds the key
keep_richer(h, by_key, key, id) ==
    IF key \notin dict_keys(by_key) THEN dict_set(by_key, key, id)
    ELSE IF more_filled(h[id], h[dict_get(by_key, key)])
         THEN dict_set(by_key, key, id)
         ELSE by_key

\* the first loop: by_email and no_email after leads[i..]
RECURSIVE email_pass(_, _, _, _, _)
email_pass(h, ls, i, by_email, no_email) ==
    IF i > Len(ls) THEN [by_email |-> by_email, no_email |-> no_email]
    ELSE LET email == normalize(Or(dict_get(h[ls[i]], "email"), ""))
         IN  IF email # ""
             THEN email_pass(h, ls, i + 1,
                             keep_richer(h, by_email, email, ls[i]), no_email)
             ELSE email_pass(h, ls, i + 1, by_email, Append(no_email, ls[i]))

name_dom_key(L) ==
    << normalize(Or(dict_get(L, "full_name"),
                    dict_get_default(L, "first_name", "") \o " "
                    \o dict_get_default(L, "last_name", ""))),
       normalize(Or(dict_get(L, "company_domain"), "")) >>

\* the second loop: by_name_dom after no_email[i..]
RECURSIVE name_dom_pass(_, _, _, _)
name_dom_pass(h, no_email, i, by_name_dom) ==
    IF i > Len(no_email) THEN by_name_dom
    ELSE name_dom_pass(h, no_email, i + 1,
             keep_richer(h, by_name_dom, name_dom_key(h[no_email[i]]),
                         no_email[i]))

\* list(d.values())
dict_values(d) == [i \in 1..Len(d) |-> d[i][2]]

dedupe_from(h, ls, first) ==
    LET p1 == email_pass(h, ls, first, <<>>, <<>>)
    IN  dict_values(p1.by_email)
        \o dict_values(name_dom_pass(h, p1.no_email, 1, <<>>))

\* `for L in leads[1:]`
dedupe_leads_skipping_first(h, ls) == dedupe_from(h, ls, 2)

\* the list of kept records (references into h)
dedupe_leads(h, ls) == dedupe_from(h, ls, 1)

-----------------------------------------------------------------------------
(* Prioritization *)

score_key(h, id) == dict_get_default(h[id], "score", 0)

\* place x before the records of equal score
insert_before_equals(h, acc, x) ==
    LET k == Cardinality({j \in 1..Len(acc) :
                              score_key(h, acc[j]) > score_key(h, x)})
    IN  SubSeq(acc, 1, k) \o <<x>> \o SubSeq(acc, k + 1, Len(acc))

\* one insertion of sorted(..., reverse=True): x goes after every record
\* whose score is at least its own (the sort is stable)
insert_by_score(h, acc, x) ==
    LET k == Cardinality({j \in 1..Len(acc) :
                              score_key(h, acc[j]) >= score_key(h, x)})
    IN  SubSeq(acc, 1, k) \o <<x>> \o SubSeq(acc, k + 1, Len(acc))

RECURSIVE sort_from(_, _, _, _)
sort_from(h, ls, i, acc) ==
    IF i > Len(ls) THEN acc
    ELSE sort_from(h, ls, i + 1, insert_by_score(h, acc, ls[i]))

\* sorted(leads_scored, key=lambda x: x.get('score', 0), reverse=True)
sorted_by_score(h, ls) == sort_from(h, ls, 1, <<>>)

\* `budget > 0`
can_afford_any_left(b, per_cost) == b > 0

\* `budget >= per_cost`
can_afford(b, per_cost) == b >= per_cost

\* the credits and costs a call is made with
MaxCredits == 2
CreditInputs == 0..MaxCredits
CostInputs == {1, 2}

\* prioritize(): entry, up to the sort
PrioritizeCall ==
    /\ pc = "prioritize"
    /\ \E c \in CreditInputs, k \in CostInputs :
         /\ credits' = c
         /\ cost_per_enrich' = k
         /\ budget' = c
    /\ sorted_leads' = sorted_by_score(heap, scored)
    /\ selected' = <<>>
    /\ cursor' = 0
    /\ pc' = "select"
    /\ UNCHANGED scoreVars
    /\ UNCHANGED batchVars

\* the loop body, `if` branch
SelectLead ==
    /\ pc = "select"
    /\ cursor < Len(sorted_leads)
    /\ can_afford(budget, cost_per_enrich)
    /\ selected' = Append(selected, sorted_leads[cursor + 1])
    /\ budget' = budget - cost_per_enrich
    /\ cursor' = cursor + 1
    /\ UNCHANGED <<pc, credits, cost_per_enrich, sorted_leads>>
    /\ UNCHANGED scoreVars
    /\ UNCHANGED batchVars

\* the loop body, `else: break`, then return
SelectBreak ==
    /\ pc = "select"
    /\ cursor < Len(sorted_leads)
    /\ ~can_afford(budget, cost_per_enrich)
    /\ pc' = "done"
    /\ UNCHANGED prioVars
    /\ UNCHANGED scoreVars
    /\ UNCHANGED batchVars

\* the list is exhausted: return
SelectEnd ==
    /\ pc = "select"
    /\ cursor = Len(sorted_leads)
    /\ pc' = "done"
    /\ UNCHANGED prioVars
    /\ UNCHANGED scoreVars
    /\ UNCHANGED batchVars

(* prioritize on any list of scored records *)

MaxScored == 3
\* stands for a record that has no 'score' key
NoScoreKey == 0 - 1
ScoreInputs == {NoScoreKey, 70, 80, 90}

ScoredLists ==
    UNION {[1..n -> ScoreInputs] : n \in 0..MaxScored}

InitPrioritize ==
    /\ pc = "prioritize"
    /\ \E scores \in ScoredLists :
         /\ heap = [i \in 1..Len(scores) |->
                       << <<"email", "lead@acme.com">> >>
                       \o (IF scores[i] = NoScoreKey THEN <<>>
                           ELSE << <<"score", scores[i]>> >>)]
         /\ scored = [i \in 1..Len(scores) |-> i]
    /\ rows0 = <<>> /\ leads = <<>> /\ dedupe = FALSE
    /\ ScoreIdle /\ PrioIdle

NextPrioritize ==
    \/ PrioritizeCall
    \/ SelectLead
    \/ SelectBreak
    \/ SelectEnd

SpecPrioritize == InitPrioritize /\ [][NextPrioritize]_vars

-----------------------------------------------------------------------------
(* process_file: read, dedupe, score, prioritize *)

\* The input file: a header and rows of values; the email column is spelled
\* in either case.
EmailColumns == {"email", "Email"}

CsvHeader(email_column) == <<email_column, "full name", "website", "phone">>

CsvRows ==
    { <<"bob@gmail.com",  "Bob Roy",   "",         "">>,
      <<" Bob@Gmail.com", "Bob Roy",   "",         "555-1234">>,
      <<"bob@gmail.com",  "bob  roy",  "",         "555-1234">>,
      <<"rob@acme.com",   "Bob Roy",   "",         "">>,
      <<"",               "Jane Doe",  "Acme.com", "">> }

MaxBatch == 3

CsvFiles == UNION {[1..n -> CsvRows] : n \in 0..MaxBatch}

\* csv.DictReader: one dict per row, keyed by the header
dict_reader_row(header, values) ==
    [j \in 1..Len(header) |-> <<header[j], values[j]>>]

\* dict((k.strip(), v.strip()) for k, v in row.items())
RECURSIVE stripped_items(_, _, _)
stripped_items(row, j, acc) ==
    IF j > Len(row) THEN acc
    ELSE stripped_items(row, j + 1,
             dict_set(acc, str_strip(row[j][1]), str_strip(row[j][2])))

\* "Normalize common column names": website -> company_domain and
\* full name -> full_name, where the latter is absent or empty
normalize_columns(r) ==
    LET r1 == IF "website" \in dict_keys(r)
                 /\ ~Truthy(dict_get(r, "company_domain"))
              THEN dict_set(r, "company_domain", dict_get(r, "website"))
              ELSE r
    IN  IF "full name" \in dict_keys(r1) /\ ~Truthy(dict_get(r1, "full_name"))
        THEN dict_set(r1, "full_name", dict_get(r1, "full name"))
        ELSE r1

\* {k.lower(): v for k, v in L.items()}
RECURSIVE lowercased_items(_, _, _)
lowercased_items(L, j, acc) ==
    IF j > Len(L) THEN acc
    ELSE lowercased_items(L, j + 1, dict_set(acc, str_lower(L[j][1]), L[j][2]))

\* "ensure keys used by functions"
USED_KEYS == <<"email", "job_title", "company_domain", "linkedin_url", "phone",
               "estimated_revenue", "first_name", "last_name", "full_name">>

RECURSIVE with_used_keys(_, _)
with_used_keys(d, j) ==
    IF j > Len(USED_KEYS) THEN d
    ELSE with_used_keys(IF USED_KEYS[j] \in dict_keys(d) THEN d
                        ELSE dict_set(d, USED_KEYS[j], ""),
                        j + 1)

\* `lead = L`: the record the score is attached to is the input record itself
same_record(h, src) == [h |-> h, id |-> src]

\* `lead = {k.lower(): v for k, v in L.items()}`: a new dict object
lowercased_copy(h, src) ==
    [h |-> Append(h, lowercased_items(h[src], 1, <<>>)), id |-> Len(h) + 1]

InitBatch ==
    /\ pc = "read"
    /\ \E col \in EmailColumns, file \in CsvFiles :
         heap = [i \in 1..Len(file) |-> dict_reader_row(CsvHeader(col), file[i])]
    /\ rows0 = <<>> /\ leads = <<>> /\ dedupe = FALSE /\ scored = <<>>
    /\ lead = <<>> /\ result = NoResult
    \* process_file's default, and an environment without the optional imports
    /\ mx_check = PyFalse /\ mx_answer = None /\ has_tldextract = FALSE
    /\ PrioIdle

\* read_csv_to_dicts
ReadCsv ==
    /\ pc = "read"
    /\ heap' = [i \in 1..Len(heap) |->
                   normalize_columns(stripped_items(heap[i], 1, <<>>))]
    /\ rows0' = heap'
    /\ leads' = [i \in 1..Len(heap) |-> i]
    /\ pc' = "dedupe"
    /\ UNCHANGED <<dedupe, scored>>
    /\ UNCHANGED scoreVars
    /\ UNCHANGED prioVars

\* `if dedupe: leads = dedupe_leads(leads)`
DedupeLeads ==
    /\ pc = "dedupe"
    /\ dedupe' = TRUE
    /\ leads' = dedupe_leads(heap, leads)
    /\ pc' = "score"
    /\ UNCHANGED <<heap, rows0, scored>>
    /\ UNCHANGED scoreVars
    /\ UNCHANGED prioVars

\* dedupe=False (--no-dedupe)
SkipDedupe ==
    /\ pc = "dedupe"
    /\ dedupe' = FALSE
    /\ pc' = "score"
    /\ UNCHANGED <<heap, rows0, leads, scored>>
    /\ UNCHANGED scoreVars
    /\ UNCHANGED prioVars

\* one turn of `for L in leads:`
ScoreLead ==
    /\ pc = "score"
    /\ Len(scored) < Len(leads)
    /\ LET t  == lowercased_copy(heap, leads[Len(scored) + 1])
           ld == with_used_keys(t.h[t.id], 1)
           r  == compute_lead_score(ld, mx_check, mx_answer, has_tldextract)
       IN  /\ heap' = [t.h EXCEPT ![t.id] =
                           dict_set(dict_set(ld, "score", r.score),
                                    "score_breakdown", r.breakdown)]
           /\ scored' = Append(scored, t.id)
           /\ lead' = ld
           /\ result' = r
    /\ UNCHANGED <<pc, rows0, leads, dedupe>>
    /\ UNCHANGED <<mx_check, mx_answer, has_tldextract>>
    /\ UNCHANGED prioVars

\* the loop is over: the scored leads are written out
WriteScored ==
    /\ pc = "score"
    /\ Len(scored) = Len(leads)
    /\ pc' = "prioritize"
    /\ UNCHANGED batchVars
    /\ UNCHANGED scoreVars
    /\ UNCHANGED prioVars

Init == InitBatch

Next ==
    \/ ReadCsv
    \/ DedupeLeads
    \/ SkipDedupe
    \/ ScoreLead
    \/ WriteScored
    \/ PrioritizeCall
    \/ SelectLead
    \/ SelectBreak
    \/ SelectEnd

Spec == Init /\ [][Next]_vars

-----------------------------------------------------------------------------
(* Properties of compute_lead_score (checked under SpecScore) *)

Breakdown == result.breakdown

\* C5: for every lead with string-valued fields (present, empty or missing)
\* and any mx_check, the score is an integer in 0..100 and each of the five
\* sub-scores of the breakdown lies in [0.0, 1.0] (0..1000 thousandths).
C5_ScoreAndSubScoresInRange ==
    pc = "score_done" =>
        /\ result.score \in 0..100
        /\ Breakdown.completeness \in 0..1000
        /\ Breakdown.seniority \in 0..1000
        /\ Breakdown.email_validity \in 0..1000
        /\ Breakdown.domain_match \in 0..1000
        /\ Breakdown.company_signal \in 0..1000

\* C5 witness: a scored lead that reaches the top of every range.
C5_Witness ==
    /\ pc = "score_done"
    /\ result.score = 100
    /\ Breakdown.completeness = 1000
    /\ Breakdown.email_validity = 1000
    /\ Breakdown.company_signal = 1000

\* C6 as claimed: the score equals round(raw_weighted * 100), raw_weighted
\* being the 4-decimal value reported in the breakdown.
C6_ScoreIsRoundOfReportedRawWeighted ==
    pc = "score_done" =>
        result.score = round_half_even(Breakdown.raw_weighted, 100)

\* C6 as amended: the score is round(raw * 100) of the unrounded sum, so it is
\* within 0.5 of raw_weighted * 100, and it equals round(raw_weighted * 100)
\* whenever raw_weighted * 100 is not exactly halfway between two integers.
C6_ScoreWithinHalfOfRawWeighted ==
    pc = "score_done" =>
        /\ 100 * result.score - Breakdown.raw_weighted \in (0 - 50)..50
        /\ Breakdown.raw_weighted % 100 # 50 =>
               result.score = round_half_even(Breakdown.raw_weighted, 100)

\* C6 witness: a revenue inside [0, 10,000,000] puts raw just below a half
\* (0.234996): the score is 23 and the reported raw_weighted is 0.2350.
C6_Witness ==
    /\ pc = "score_done"
    /\ dict_get(lead, "estimated_revenue") = "3749000"
    /\ result.score = 23
    /\ Breakdown.raw_weighted = 2350

\* the lead whose only non-empty field is email = "bob@gmail.com"
OnlyBobsEmail(L) ==
    /\ dict_get(L, "email") = "bob@gmail.com"
    /\ \A k \in dict_keys(L) \ {"email"} : dict_get(L, k) = ""

\* the sub-scores the scenario states for that lead
BobSubScores ==
    /\ Breakdown.completeness \in 325..334
    /\ Breakdown.seniority = 0
    /\ Breakdown.domain_match = 0
    /\ Breakdown.company_signal = 0
    /\ Breakdown.email_validity = 600

\* C7 as claimed: for that lead (no MX check requested) completeness is about
\* 0.33, seniority, domain_match and company_signal are 0.0, email_validity is
\* 0.6, and the overall score is at most 13.
C7_BobScoresLowTeens ==
    (pc = "score_done" /\ OnlyBobsEmail(lead) /\ mx_check # PyTrue) =>
        (BobSubScores /\ result.score <= 13)

\* C7 as amended: the same sub-scores, and an overall score of exactly 22
\* (0.30 * 1/3 + 0.20 * 0.6 = 0.22).
C7_BobScores22 ==
    (pc = "score_done" /\ OnlyBobsEmail(lead) /\ mx_check # PyTrue) =>
        (BobSubScores /\ result.score = 22 /\ Breakdown.raw_weighted = 2200)

\* C7 witness: that lead has been scored.
C7_Witness ==
    /\ pc = "score_done"
    /\ lead = << <<"email", "bob@gmail.com">> >>
    /\ mx_check = None
    /\ result.score = 22

\* C8: company_signal holds its 0.6 email component only when the email has
\* a domain (exactly one '@', something after it) that is not a free webmail
\* domain; an email without a domain and an empty revenue give 0.0.
C8_CompanySignalNeedsADomain ==
    pc = "score_done" =>
        LET email == dict_get(lead, "email")
            d     == extract_domain_from_email(email)
        IN  /\ Breakdown.company_signal >= 600 =>
                   (d # "" /\ d \notin PERSONAL_EMAIL_DOMAINS)
            /\ (Truthy(email) /\ d = ""
                  /\ ~Truthy(dict_get(lead, "estimated_revenue"))) =>
                   Breakdown.company_signal = 0

-----------------------------------------------------------------------------
(* Properties of prioritize (checked under SpecPrioritize) *)

\* the place of record x in the list handed to prioritize
PlaceIn(ls, x) == CHOOSE i \in 1..Len(ls) : ls[i] = x

Elems(ls) == {ls[i] : i \in 1..Len(ls)}

\* x ranks before y in the stable descending order of the input list
RanksBefore(x, y) ==
    \/ score_key(heap, x) > score_key(heap, y)
    \/ /\ score_key(heap, x) = score_key(heap, y)
       /\ PlaceIn(scored, x) < PlaceIn(scored, y)

\* C1: with credits >= 0 and cost_per_enrich >= 1, prioritize never selects
\* more than floor(credits / cost_per_enrich) records, and the remaining
\* budget never drops below 0 during the selection loop.
C1_SelectionWithinBudget ==
    /\ Len(selected) <= credits \div cost_per_enrich
    /\ budget >= 0
    /\ pc \in {"select", "done"} =>
           budget = credits - Len(selected) * cost_per_enrich

\* C1 witness: credits = 2, cost 1, scores [90, 80, 70]: exactly the top two.
C1_Witness ==
    /\ pc = "done"
    /\ credits = 2 /\ cost_per_enrich = 1
    /\ [i \in 1..Len(scored) |-> score_key(heap, scored[i])] = <<90, 80, 70>>
    /\ selected = <<1, 2>>
    /\ budget = 0

\* C2: the result is a prefix of the input stably sorted by score
\* descending: scores do not increase along the result, records of equal
\* score keep their input order, and no record is selected while one that
\* ranks before it is left out.
C2_ResultIsPrefixOfStableDescendingSort ==
    pc = "done" =>
        /\ Elems(selected) \subseteq Elems(scored)
        /\ Cardinality(Elems(selected)) = Len(selected)
        /\ \A i, j \in 1..Len(selected) :
               i < j => RanksBefore(selected[i], selected[j])
        /\ \A x \in Elems(scored) \ Elems(selected) :
               \A y \in Elems(selected) : ~RanksBefore(x, y)

\* C2 witness: scores [80, 90, 80] and room for two: the 90, then the first
\* of the two 80s; the later 80 is left out.
C2_Witness ==
    /\ pc = "done"
    /\ [i \in 1..Len(scored) |-> score_key(heap, scored[i])] = <<80, 90, 80>>
    /\ selected = <<2, 1>>

-----------------------------------------------------------------------------
(* Properties of dedupe_leads and of the pipeline (checked under Spec) *)

\* the input batch, as references
InputIds == 1..Len(rows0)

\* dedupe_leads has just returned
Deduped == dedupe /\ pc = "score" /\ scored = <<>>

\* the normalized email dedupe_leads reads from record x
EmailOf(x) == normalize(Or(dict_get(heap[x], "email"), ""))

\* C3: dedupe_leads is idempotent: run on its own result it keeps exactly
\* the same records.
C3_DedupeIdempotent ==
    Deduped => Elems(dedupe_leads(heap, leads)) = Elems(leads)

\* C3 witness: a batch in which dedupe dropped a record and kept two.
C3_Witness ==
    /\ Deduped
    /\ Len(rows0) = 3
    /\ Len(leads) = 2

\* C4: for every non-empty normalized email of the batch, dedupe_leads keeps
\* exactly one record with that email; its count of non-empty fields is the
\* largest in the email's group, and it is the first-seen of those with the
\* largest count.
C4_KeepsFirstMostFilledPerEmail ==
    Deduped =>
        \A x \in InputIds : EmailOf(x) # "" =>
            LET group == {y \in InputIds : EmailOf(y) = EmailOf(x)}
                kept  == {y \in Elems(leads) : EmailOf(y) = EmailOf(x)}
                Count(y) == count_nonempty_fields(heap[y])
                fullest == {y \in group : \A z \in group : Count(z) <= Count(y)}
            IN  /\ Cardinality(kept) = 1
                /\ Len(SelectSeq(leads, LAMBDA y : EmailOf(y) = EmailOf(x))) = 1
                /\ \A k \in kept : k \in fullest /\ \A z \in fullest : k <= z

\* C4 witness: three records share an email; the second and third are
\* equally filled and fuller than the first; the second is the one kept.
C4_Witness ==
    /\ Deduped
    /\ Len(rows0) = 3
    /\ EmailOf(1) # "" /\ EmailOf(2) = EmailOf(1) /\ EmailOf(3) = EmailOf(1)
    /\ count_nonempty_fields(heap[1]) < count_nonempty_fields(heap[2])
    /\ count_nonempty_fields(heap[2]) = count_nonempty_fields(heap[3])
    /\ leads = <<2>>

\* the email of a record, whatever the letter case of its key
EmailAnyCase(L) ==
    LET ks == {k \in dict_keys(L) : str_lower(k) = "email"}
    IN  IF ks = {} THEN "" ELSE normalize(dict_get(L, CHOOSE k \in ks : TRUE))

\* C9: with dedupe enabled, two records of the batch whose emails (under a
\* key in any letter case) normalize to different non-empty strings are not
\* collapsed into one: both emails appear in the scored set.
C9_DistinctEmailsSurviveAnyKeyCase ==
    (pc = "done" /\ dedupe) =>
        \A x, y \in InputIds :
            LET ex == EmailAnyCase(rows0[x])
                ey == EmailAnyCase(rows0[y])
                ScoredEmails == {normalize(dict_get(heap[z], "email")) :
                                     z \in Elems(scored)}
            IN  (ex # "" /\ ey # "" /\ ex # ey) =>
                    (ex \in ScoredEmails /\ ey \in ScoredEmails)

SameDict(a, b) ==
    /\ Len(a) = Len(b)
    /\ \A j \in 1..Len(a) : a[j][1] = b[j][1] /\ a[j][2] = b[j][2]

\* C10: the pipeline leaves every input record as it was; score and
\* score_breakdown are attached only to newly created records, and the
\* prioritized result holds only records of the scored set.
C10_InputsNotMutated ==
    pc # "read" =>
        /\ \A x \in InputIds :
              /\ SameDict(heap[x], rows0[x])
              /\ {"score", "score_breakdown"} \cap dict_keys(heap[x]) = {}
        /\ \A z \in Elems(scored) :
              /\ z \notin InputIds
              /\ {"score", "score_breakdown"} \subseteq dict_keys(heap[z])
        /\ Elems(selected) \subseteq Elems(scored)

\* C10 witness: a whole run over three records, one dropped by dedupe, two
\* scored, one selected.
C10_Witness ==
    /\ pc = "done"
    /\ dedupe
    /\ Len(rows0) = 3
    /\ Len(scored) = 2
    /\ Len(selected) = 1

====
